---- MODULE Spec2Model ----
(***************************************************************************)
(* A model of tools/livp_action/make_livp.py: the command-line driver      *)
(* main() and the per-file pipeline build_livp() with its four stages      *)
(* build_video, extract_still, write_metadata and pack_livp.               *)
(*                                                                         *)
(* File names are sequences of one-character strings, so that the suffix   *)
(* test, the collision suffix f"{index:04d}" and the sort of the discovered*)
(* paths are computed the way the program computes them.  A path is the    *)
(* sequence of its parts relative to the input folder.                     *)
(*                                                                         *)
(* Environment assumptions: uuid.uuid4() never repeats a value; a file     *)
(* that exists can be opened for writing; once the container file has been *)
(* opened, reading the two temporary files and writing the two entries     *)
(* does not fail.                                                          *)
(***************************************************************************)
EXTENDS Integers, Sequences, FiniteSets, TLC

\* ------------------------------------------------------------------ bounds

\* At most this many files exist under the input folder.
MaxFiles == 3

\* ----------------------------------------------------------------- strings

\* The characters the model's names use, in code-point order.
Alphabet ==
  << ".", "0", "1", "2", "3", "4", "5", "6", "7", "8", "9",
     "G", "I", "J", "M", "O", "P", "V", "_",
     "a", "b", "e", "g", "i", "j", "k", "l", "m", "n", "o", "p", "t", "v",
     "w", "x" >>

Ord(c) == CHOOSE i \in 1..Len(Alphabet) : Alphabet[i] = c

Min(S) == CHOOSE x \in S : \A y \in S : x <= y

Max(S) == CHOOSE x \in S : \A y \in S : x >= y

\* str.lower() on one character.
LowerChar(c) ==
  CASE c = "G" -> "g" [] c = "I" -> "i" [] c = "J" -> "j" [] c = "M" -> "m"
    [] c = "O" -> "o" [] c = "P" -> "p" [] c = "V" -> "v" [] OTHER -> c

Lower(s) == [i \in 1..Len(s) |-> LowerChar(s[i])]

\* Python's < on str: the first differing character decides, a proper prefix
\* is smaller.
StrLess(s, t) ==
  LET n == IF Len(s) < Len(t) THEN Len(s) ELSE Len(t)
      d == {i \in 1..n : s[i] # t[i]}
  IN  IF d = {} THEN Len(s) < Len(t) ELSE Ord(s[Min(d)]) < Ord(t[Min(d)])

\* pathlib's < on paths: Python's < on the lists of parts.
PathLess(p, q) ==
  LET n == IF Len(p) < Len(q) THEN Len(p) ELSE Len(q)
      d == {i \in 1..n : p[i] # q[i]}
  IN  IF d = {} THEN Len(p) < Len(q) ELSE StrLess(p[Min(d)], q[Min(d)])

RECURSIVE Sorted(_)
\* sorted(...) of a set of paths.
Sorted(S) ==
  IF S = {} THEN << >>
  ELSE LET m == CHOOSE p \in S : \A q \in S \ {p} : PathLess(p, q)
       IN  << m >> \o Sorted(S \ {m})

\* The index of the last "." of a name, 0 when it has none (str.rfind + 1).
LastDot(name) ==
  LET d == {i \in 1..Len(name) : name[i] = "."}
  IN  IF d = {} THEN 0 ELSE Max(d)

\* PurePath.suffix: from the last dot, unless the name starts or ends with it.
Suffix(name) ==
  LET i == LastDot(name)
  IN  IF 1 < i /\ i < Len(name) THEN SubSeq(name, i, Len(name)) ELSE << >>

\* PurePath.stem.
Stem(name) ==
  LET i == LastDot(name)
  IN  IF 1 < i /\ i < Len(name) THEN SubSeq(name, 1, i - 1) ELSE name

\* PurePath.name: the last part.
Name(path) == path[Len(path)]

Digit(d) == Alphabet[d + 2]

RECURSIVE Decimal(_)
\* str(n) for n >= 0.
Decimal(n) ==
  IF n < 10 THEN << Digit(n) >> ELSE Decimal(n \div 10) \o << Digit(n % 10) >>

RECURSIVE ZeroFill(_, _)
ZeroFill(s, width) == IF Len(s) >= width THEN s ELSE ZeroFill(<< "0" >> \o s, width)

\* f"{index:04d}"
Pad4(index) == ZeroFill(Decimal(index), 4)

VIDEO_EXTS ==
  { << ".", "m", "p", "4" >>, << ".", "m", "o", "v" >>, << ".", "m", "4", "v" >>,
    << ".", "m", "k", "v" >>, << ".", "w", "e", "b", "m" >>,
    << ".", "a", "v", "i" >> }

\* ------------------------------------------------------------- environment

\* The files that may exist under the input folder (paths relative to it):
\* n.txt, v.mp4, v_0002.MOV, w/v.mkv and x.mp4.
UniverseFiles ==
  { << << "n", ".", "t", "x", "t" >> >>,
    << << "v", ".", "m", "p", "4" >> >>,
    << << "v", "_", "0", "0", "0", "2", ".", "M", "O", "V" >> >>,
    << << "w" >>, << "v", ".", "m", "k", "v" >> >>,
    << << "x", ".", "m", "p", "4" >> >> }

\* The folders that hold the files of F.
Folders(F) == {SubSeq(p, 1, Len(p) - 1) : p \in {q \in F : Len(q) > 1}}

\* The .livp files that may already exist in the output folder: v.livp and
\* v_0002.livp.
OldNames ==
  { << "v", ".", "l", "i", "v", "p" >>,
    << "v", "_", "0", "0", "0", "2", ".", "l", "i", "v", "p" >> }

\* A file that was in the output folder before the run.
Old == [by |-> 0, entries |-> << >>]

\* The names of mkdtemp's directories.
TmpNames == {"livp_a", "livp_b"}

\* What starting a subprocess can come to: it ran and exited 0, it ran and
\* exited nonzero, or it could not be started (subprocess.run raises OSError).
Outcomes == {"ok", "nonzero", "nostart"}

\* --------------------------------------------------------------- arguments

ArgOrder == << "cover_time", "max_duration", "fps", "max_width", "max_height" >>

ArgNames == {ArgOrder[i] : i \in 1..Len(ArgOrder)}

\* argparse's defaults: the value of an option that is not given.
ArgDefault ==
  [cover_time |-> "0.5", max_duration |-> "2.9", fps |-> "30",
   max_width |-> "3840", max_height |-> "2160"]

\* The values an option is given on the command line.
RawGiven == {"", " ", "2.5", "abc", "1e999"}

\* The command lines: no tuning option given, or one of them.
ArgVectors ==
  {ArgDefault} \cup {[ArgDefault EXCEPT ![a] = r] : a \in ArgNames, r \in RawGiven}

\* A float, in thousandths.
Finite(milli) == [inf |-> FALSE, milli |-> milli]

Infinite == [inf |-> TRUE, milli |-> 0]

\* str.strip()
Strip(text) == IF text = " " THEN "" ELSE text

\* float(text): the value, or ValueError.
FloatOf(text) ==
  CASE text = "0.5"   -> [exc |-> "none", val |-> Finite(500)]
    [] text = "2.9"   -> [exc |-> "none", val |-> Finite(2900)]
    [] text = "30"    -> [exc |-> "none", val |-> Finite(30000)]
    [] text = "3840"  -> [exc |-> "none", val |-> Finite(3840000)]
    [] text = "2160"  -> [exc |-> "none", val |-> Finite(2160000)]
    [] text = "2.5"   -> [exc |-> "none", val |-> Finite(2500)]
    [] text = "1e999" -> [exc |-> "none", val |-> Infinite]
    [] OTHER          -> [exc |-> "ValueError", val |-> Finite(0)]

\* int(x) of a float: truncation, OverflowError on an infinity.
IntOf(x) ==
  IF x.inf THEN [exc |-> "OverflowError", val |-> 0]
  ELSE [exc |-> "none", val |-> x.milli \div 1000]

\* A _parse_float that falls back to the default when float raises.
ParseFloatLenient(value, default) ==
  LET text == Strip(value)
  IN  IF text = "" \/ FloatOf(text).exc # "none"
        THEN [exc |-> "none", val |-> default]
        ELSE FloatOf(text)

\* main._parse_float
ParseFloat(value, default) ==
  LET text == Strip(value)
  IN  IF text = "" THEN [exc |-> "none", val |-> default] ELSE FloatOf(text)

\* main._parse_int
ParseInt(value, default) ==
  LET text == Strip(value)
      f == FloatOf(text)
  IN  IF text = "" THEN [exc |-> "none", val |-> default]
      ELSE IF f.exc # "none" THEN [exc |-> f.exc, val |-> 0]
      ELSE IntOf(f.val)

\* The five conversions of main, each on its own.
ParseArg(args, a) ==
  CASE a = "cover_time"   -> ParseFloat(args[a], Finite(500))
    [] a = "max_duration" -> ParseFloat(args[a], Finite(2900))
    [] a = "fps"          -> ParseInt(args[a], 30)
    [] a = "max_width"    -> ParseInt(args[a], 3840)
    [] a = "max_height"   -> ParseInt(args[a], 2160)

\* The option whose conversion raises first, 0 when none does.
FirstBad(args) ==
  LET bad == {i \in 1..Len(ArgOrder) : ParseArg(args, ArgOrder[i]).exc # "none"}
  IN  IF bad = {} THEN 0 ELSE Min(bad)

\* "--cover-time" and so on, as the one-element list of the message's argument.
Label(a) ==
  CASE a = "cover_time"   -> << "--cover-time" >>
    [] a = "max_duration" -> << "--max-duration" >>
    [] a = "fps"          -> << "--fps" >>
    [] a = "max_width"    -> << "--max-width" >>
    [] a = "max_height"   -> << "--max-height" >>

\* ------------------------------------------------------------------- state

VARIABLES
  pc,           \* where main is
  args,         \* the tuning options of the command line, until main has
                \* converted them (they are not read again)
  tuning,       \* cover_time, max_duration, fps, max_width, max_height
  inputExists,  \* input_dir.exists()
  inputFiles,   \* the files under the input folder
  outDir,       \* the output folder: "absent", "writable" or "readonly"
  outFiles,     \* the files of the output folder: name -> content
  sources,      \* main's list of sources
  idx,          \* main's loop index
  call,         \* the locals of the build_livp call in progress
  tmpRoot,      \* the temporary directories: name -> (file name -> content)
  uuids,        \* how many uuid4 values have been drawn
  ran,          \* history: the external steps started, in order
  stdout,       \* history: the lines printed
  status,       \* "running", "returned" or "crashed" (uncaught exception)
  exitCode      \* the process's exit code once it has ended

vars ==
  << pc, args, tuning, inputExists, inputFiles, outDir, outFiles, sources, idx, call,
     tmpRoot, uuids, ran, stdout, status, exitCode >>

NoCall == [active |-> FALSE]

EmptyDir == [n \in {} |-> Old]

Init ==
  /\ pc = "parse"
  /\ args \in ArgVectors
  /\ tuning = << >>
  /\ inputExists \in BOOLEAN
  /\ inputFiles \in {F \in SUBSET UniverseFiles : Cardinality(F) <= MaxFiles}
  /\ ~inputExists => inputFiles = {}
  /\ outDir \in {"absent", "writable", "readonly"}
  /\ \E S \in SUBSET OldNames : outFiles = [n \in S |-> Old]
  /\ outDir = "absent" => outFiles = EmptyDir
  /\ sources = << >>
  /\ idx = 0
  /\ call = NoCall
  /\ tmpRoot = << >>
  /\ uuids = 0
  /\ ran = << >>
  /\ stdout = << >>
  /\ status = "running"
  /\ exitCode = 0

\* ------------------------------------------------------------ main, part 1

\* return code from main: sys.exit(main()).
Return(code) ==
  /\ pc' = "done"
  /\ status' = "returned"
  /\ exitCode' = code

\* An exception leaves main: the interpreter prints the traceback and exits 1.
Crash ==
  /\ pc' = "done"
  /\ status' = "crashed"
  /\ exitCode' = 1

\* main, lines 285-293: the five conversions in order.
ParseArgs ==
  /\ pc = "parse"
  /\ args' = << >>
  /\ LET b == FirstBad(args)
       IN  \/ /\ b = 0
              /\ tuning' = [a \in ArgNames |-> ParseArg(args, a).val]
              /\ pc' = "check_input"
              /\ UNCHANGED << stdout, status, exitCode >>
           \/ /\ b # 0
              /\ ParseArg(args, ArgOrder[b]).exc = "ValueError"
              /\ stdout' = Append(stdout, << "Argument error", Label(ArgOrder[b]) >>)
              /\ Return(2)
              /\ UNCHANGED tuning
           \/ /\ b # 0
              /\ ParseArg(args, ArgOrder[b]).exc = "OverflowError"
              /\ Crash
              /\ UNCHANGED << tuning, stdout >>
  /\ UNCHANGED << inputExists, inputFiles, outDir, outFiles, sources, idx, call,
                  tmpRoot, uuids, ran >>

\* main, lines 299-303.
CheckInput ==
  /\ pc = "check_input"
  /\ IF inputExists
       THEN /\ pc' = "mkdir"
            /\ UNCHANGED << stdout, status, exitCode >>
       ELSE /\ stdout' = Append(stdout, << "Input folder not found", << >> >>)
            /\ Return(1)
  /\ UNCHANGED << args, tuning, inputExists, inputFiles, outDir, outFiles, sources, idx,
                  call, tmpRoot, uuids, ran >>

\* main, line 304: output_dir.mkdir(parents=True, exist_ok=True).  A folder
\* that exists is left as it is; a missing one is created, or mkdir raises.
MakeOutputDir ==
  /\ pc = "mkdir"
  /\ \/ /\ outDir # "absent"
        /\ pc' = "discover"
        /\ UNCHANGED << outDir, status, exitCode >>
     \/ /\ outDir = "absent"
        /\ outDir' = "writable"
        /\ pc' = "discover"
        /\ UNCHANGED << status, exitCode >>
     \/ /\ outDir = "absent"
        /\ Crash
        /\ UNCHANGED outDir
  /\ UNCHANGED << args, tuning, inputExists, inputFiles, outFiles, sources, idx, call,
                  tmpRoot, uuids, ran, stdout >>

\* input_dir.rglob("*"): every file and every folder under the input folder.
Rglob == inputFiles \cup Folders(inputFiles)

\* path.is_file()
IsFile(p) == p \in inputFiles

\* main, lines 306-310.
Discovered ==
  SelectSeq(Sorted(Rglob), LAMBDA p : IsFile(p) /\ Lower(Suffix(Name(p))) \in VIDEO_EXTS)

\* main, lines 306-315.
Discover ==
  /\ pc = "discover"
  /\ sources' = Discovered
  /\ IF Discovered = << >>
       THEN /\ stdout' = Append(stdout, << "No video files found", << >> >>)
            /\ Return(1)
       ELSE /\ stdout' = Append(stdout, << "Found", Decimal(Len(Discovered)) >>)
            /\ pc' = "loop"
            /\ UNCHANGED << status, exitCode >>
  /\ UNCHANGED << args, tuning, inputExists, inputFiles, outDir, outFiles, idx, call,
                  tmpRoot, uuids, ran >>

\* -------------------------------------------------------------- build_livp

LivpExt == << ".", "l", "i", "v", "p" >>

\* build_livp, line 229: internal_base = f"IMG_{index:04d}.JPG"
InternalBase(index) ==
  << "I", "M", "G", "_" >> \o Pad4(index) \o << ".", "J", "P", "G" >>

\* An output name chosen without looking at the output folder.
OutPathUnchecked(stem, index, existing) == stem \o LivpExt

\* build_livp, lines 230-233: the name of the container in the output folder,
\* given the names that exist there.
OutPath(stem, index, existing) ==
  IF (stem \o LivpExt) \in existing
    THEN stem \o << "_" >> \o Pad4(index) \o LivpExt
    ELSE stem \o LivpExt

\* has_audio: what it returns, or that subprocess.run raised.
HasAudio(outcome, out) ==
  [raised |-> outcome = "nostart",
   val    |-> IF outcome # "ok" THEN FALSE ELSE Strip(out) # ""]

\* A run_cmd that does not look at the exit status.
RunCmdUnchecked(outcome) == FALSE

\* run_cmd: whether it raises (RuntimeError on a nonzero exit, subprocess.run's
\* OSError when the tool cannot be started).
RunCmdRaises(outcome) == outcome # "ok"

\* build_video, lines 73-142: the audio the encode command maps.
AudioMap(audio) == IF audio THEN "0:a:0" ELSE "anullsrc"

\* An exiftool run that leaves the original file as it was.
WriteTagElsewhere(file, content_id) == file

\* exiftool -overwrite_original -...ContentIdentifier=content_id file
WriteTag(file, content_id) == [file EXCEPT !.tag = content_id]

\* A pack_livp that names the entries after the source file.
PackEntriesBySource(photo, video, internal_base) ==
  << [name     |-> Stem(Name(photo.origin)) \o << ".", "j", "p", "e", "g" >>,
      compress |-> "ZIP_STORED",
      data     |-> photo],
     [name     |-> Stem(Name(video.origin)) \o << ".", "m", "o", "v" >>,
      compress |-> "ZIP_STORED",
      data     |-> video] >>

\* pack_livp: the entries written, in order.
PackEntries(photo, video, internal_base) ==
  << [name     |-> internal_base \o << ".", "j", "p", "e", "g" >>,
      compress |-> "ZIP_STORED",
      data     |-> photo],
     [name     |-> internal_base \o << ".", "m", "o", "v" >>,
      compress |-> "ZIP_STORED",
      data     |-> video] >>

\* pack_livp, line 194: whether zipfile.ZipFile(out_path, "w") can open the file.
CanOpen(dirState, existing, out_path) == dirState = "writable" \/ out_path \in existing

\* f with key k set to v.
Put(f, k, v) == [n \in DOMAIN f \cup {k} |-> IF n = k THEN v ELSE f[n]]

\* A temporary directory that is never removed.
CleanupNever(root, d) == root

\* TemporaryDirectory.__exit__: the directory and what it holds are removed.
Cleanup(root, d) == [n \in DOMAIN root \ {d} |-> root[n]]

\* One external step of the call in progress, for the history: arg is the audio
\* the encode maps, cid the content identifier an exiftool command writes.
Step(stage, step, result, arg, cid) ==
  [idx |-> idx, stage |-> stage, step |-> step, result |-> result, arg |-> arg,
   cid |-> cid]

\* An exception raised inside the with block of build_livp: the temporary
\* directory is removed, the exception reaches main's except clause (lines
\* 333-335), which prints the failure and returns 1.
Fail ==
  /\ tmpRoot' = Cleanup(tmpRoot, call.tmpdir)
  /\ call' = NoCall
  /\ stdout' = Append(stdout, << "Failed", Name(call.src) >>)
  /\ Return(1)

\* main, lines 316-317 and 336, and build_livp, lines 228-233.
LoopIter ==
  /\ pc = "loop"
  /\ IF idx = Len(sources)
       THEN /\ Return(0)
            /\ UNCHANGED << idx, call, uuids, stdout >>
       ELSE LET src == sources[idx + 1]
            IN  /\ idx' = idx + 1
                /\ stdout' = Append(stdout, << "Processing", Name(src) >>)
                /\ uuids' = uuids + 1
                /\ call' = [active        |-> TRUE,
                            src           |-> src,
                            content_id    |-> uuids + 1,
                            internal_base |-> InternalBase(idx + 1),
                            out_path      |-> OutPath(Stem(Name(src)), idx + 1,
                                                      DOMAIN outFiles),
                            tmpdir        |-> "",
                            audio         |-> FALSE]
                /\ pc' = "mkdtemp"
                /\ UNCHANGED << status, exitCode >>
  /\ UNCHANGED << args, tuning, inputExists, inputFiles, outDir, outFiles, sources,
                  tmpRoot, ran >>

\* build_livp, lines 235-238: a new, empty directory.
MakeTemp ==
  /\ pc = "mkdtemp"
  /\ \E d \in TmpNames \ DOMAIN tmpRoot :
       /\ tmpRoot' = Put(tmpRoot, d, << >>)
       /\ call' = [call EXCEPT !.tmpdir = d]
  /\ pc' = "probe"
  /\ UNCHANGED << args, tuning, inputExists, inputFiles, outDir, outFiles, sources, idx,
                  uuids, ran, stdout, status, exitCode >>

\* build_video, line 72: has_audio.
Probe ==
  /\ pc = "probe"
  /\ \E o \in Outcomes, out \in {"", "0"} :
       LET r == HasAudio(o, out)
       IN  /\ ran' = Append(ran, Step("build_video", "ffprobe", o, "", 0))
           /\ IF r.raised
                THEN Fail
                ELSE /\ call' = [call EXCEPT !.audio = r.val]
                     /\ pc' = "encode"
                     /\ UNCHANGED << tmpRoot, stdout, status, exitCode >>
  /\ UNCHANGED << args, tuning, inputExists, inputFiles, outDir, outFiles, sources, idx,
                  uuids >>

\* build_video, lines 73-143: the encode.
Encode ==
  /\ pc = "encode"
  /\ \E o \in Outcomes :
       /\ ran' = Append(ran, Step("build_video", "ffmpeg video", o, AudioMap(call.audio), 0))
       /\ IF RunCmdRaises(o)
            THEN Fail
            ELSE /\ tmpRoot' =
                      [tmpRoot EXCEPT ![call.tmpdir] =
                         Put(@, "livephoto.mov",
                             [kind |-> "video", origin |-> call.src, tag |-> 0,
                              audio |-> AudioMap(call.audio)])]
                 /\ pc' = "still"
                 /\ UNCHANGED << call, stdout, status, exitCode >>
  /\ UNCHANGED << args, tuning, inputExists, inputFiles, outDir, outFiles, sources, idx,
                  uuids >>

\* extract_still: one frame of the normalized video.
ExtractStill ==
  /\ pc = "still"
  /\ \E o \in Outcomes :
       /\ ran' = Append(ran, Step("extract_still", "ffmpeg still", o, "", 0))
       /\ IF RunCmdRaises(o)
            THEN Fail
            ELSE /\ tmpRoot' =
                      [tmpRoot EXCEPT ![call.tmpdir] =
                         Put(@, "livephoto.jpeg",
                             [kind |-> "image",
                              origin |-> @["livephoto.mov"].origin,
                              tag |-> 0, audio |-> ""])]
                 /\ pc' = "exif_video"
                 /\ UNCHANGED << call, stdout, status, exitCode >>
  /\ UNCHANGED << args, tuning, inputExists, inputFiles, outDir, outFiles, sources, idx,
                  uuids >>

\* write_metadata, lines 166-177: the video's tags.
ExifVideo ==
  /\ pc = "exif_video"
  /\ \E o \in Outcomes :
       /\ ran' = Append(ran, Step("write_metadata", "exiftool video", o, "", call.content_id))
       /\ IF RunCmdRaises(o)
            THEN Fail
            ELSE /\ tmpRoot' =
                      [tmpRoot EXCEPT ![call.tmpdir]["livephoto.mov"] =
                         WriteTag(@, call.content_id)]
                 /\ pc' = "exif_image"
                 /\ UNCHANGED << call, stdout, status, exitCode >>
  /\ UNCHANGED << args, tuning, inputExists, inputFiles, outDir, outFiles, sources, idx,
                  uuids >>

\* write_metadata, lines 178-188: the image's tags.
ExifImage ==
  /\ pc = "exif_image"
  /\ \E o \in Outcomes :
       /\ ran' = Append(ran, Step("write_metadata", "exiftool image", o, "", call.content_id))
       /\ IF RunCmdRaises(o)
            THEN Fail
            ELSE /\ tmpRoot' =
                      [tmpRoot EXCEPT ![call.tmpdir]["livephoto.jpeg"] =
                         WriteTag(@, call.content_id)]
                 /\ pc' = "pack"
                 /\ UNCHANGED << call, stdout, status, exitCode >>
  /\ UNCHANGED << args, tuning, inputExists, inputFiles, outDir, outFiles, sources, idx,
                  uuids >>

\* pack_livp, then the end of build_livp's with block, its return, and main's
\* line 332.
Pack ==
  /\ pc = "pack"
  /\ LET tmp == tmpRoot[call.tmpdir]
     IN  IF CanOpen(outDir, DOMAIN outFiles, call.out_path)
           THEN /\ ran' = Append(ran, Step("pack_livp", "zipfile", "ok", "", 0))
                /\ outFiles' =
                     Put(outFiles, call.out_path,
                         [by      |-> idx,
                          entries |-> PackEntries(tmp["livephoto.jpeg"],
                                                  tmp["livephoto.mov"],
                                                  call.internal_base)])
                /\ tmpRoot' = Cleanup(tmpRoot, call.tmpdir)
                /\ call' = NoCall
                /\ stdout' = Append(stdout, << "Output", call.out_path >>)
                /\ pc' = "loop"
                /\ UNCHANGED << status, exitCode >>
           ELSE /\ ran' = Append(ran, Step("pack_livp", "zipfile", "oserror", "", 0))
                /\ Fail
                /\ UNCHANGED outFiles
  /\ UNCHANGED << args, tuning, inputExists, inputFiles, outDir, sources, idx, uuids >>

Next ==
  \/ ParseArgs
  \/ CheckInput
  \/ MakeOutputDir
  \/ Discover
  \/ LoopIter
  \/ MakeTemp
  \/ Probe
  \/ Encode
  \/ ExtractStill
  \/ ExifVideo
  \/ ExifImage
  \/ Pack

Spec == Init /\ [][Next]_vars

\* ---------------------------------------------------------------- properties

\* The external steps of the call at index i, in the order they were started.
StepsOf(i) == SelectSeq(ran, LAMBDA s : s.idx = i)

\* A step that raised: the probe only when it could not be started, every
\* other step on anything but success.
Raised(s) == IF s.step = "ffprobe" THEN s.result = "nostart" ELSE s.result # "ok"

StepOrder ==
  << "ffprobe", "ffmpeg video", "ffmpeg still", "exiftool video", "exiftool image",
     "zipfile" >>

StageOrder ==
  << "build_video", "build_video", "extract_still", "write_metadata",
     "write_metadata", "pack_livp" >>

WrittenBy(i) == {n \in DOMAIN outFiles : outFiles[n].by = i}

InCall == pc \in {"probe", "encode", "still", "exif_video", "exif_image", "pack"}

LastLine == stdout[Len(stdout)]

LastStep == ran[Len(ran)]

\* i as four decimal digits (i < 10000).
FourDigits(i) ==
  << Digit((i \div 1000) % 10), Digit((i \div 100) % 10), Digit((i \div 10) % 10),
     Digit(i % 10) >>

Dot_livp == << ".", "l", "i", "v", "p" >>

V_livp == << "v", ".", "l", "i", "v", "p" >>

V_0003_livp == << "v", "_", "0", "0", "0", "3", ".", "l", "i", "v", "p" >>

\* C1: in every call of build_livp the steps run in the order probe, encode
\* (build_video), still (extract_still), video tags, image tags
\* (write_metadata), zip (pack_livp); a step starts only when every earlier one
\* of the call has succeeded; and once a step has raised, nothing later has
\* run, the call has written no container, and main has received the failure
\* (it printed "Failed: <name>" and returned 1).
C1_StageOrder ==
  /\ \A k \in 1..Len(ran) : ran[k].idx \in 1..idx
  /\ \A i \in 1..idx :
       LET s == StepsOf(i)
       IN  /\ Len(s) <= Len(StepOrder)
           /\ \A k \in 1..Len(s) :
                s[k].step = StepOrder[k] /\ s[k].stage = StageOrder[k]
           /\ \A k \in 1..(Len(s) - 1) : ~Raised(s[k])
           /\ (Len(s) > 0 /\ Raised(s[Len(s)])) =>
                /\ i = idx
                /\ pc = "done" /\ status = "returned" /\ exitCode = 1
                /\ call = NoCall
                /\ LastLine = << "Failed", Name(sources[i]) >>
                /\ WrittenBy(i) = {}

\* C1's case: the second source's call failed in write_metadata.
C1_Witness ==
  /\ pc = "done" /\ idx = 2 /\ Len(ran) > 0
  /\ LastStep.step = "exiftool video" /\ LastStep.result = "nonzero"

\* C2: every container a call wrote holds one image and one video, both made
\* from that call's source and both carrying the content identifier that call
\* generated, which no other call uses; and when the video was tagged and the
\* image's tagging failed, the call has ended in failure and written nothing.
C2_OneIdentifier ==
  /\ \A n \in DOMAIN outFiles :
       LET c == outFiles[n]
           s == StepsOf(c.by)
       IN  c.by # 0 =>
             /\ Len(c.entries) = 2
             /\ c.entries[1].data.kind = "image"
             /\ c.entries[2].data.kind = "video"
             /\ s[4].cid # 0 /\ s[5].cid = s[4].cid
             /\ \A k \in 1..2 :
                  /\ c.entries[k].data.origin = sources[c.by]
                  /\ c.entries[k].data.tag = s[4].cid
  /\ \A k, m \in 1..Len(ran) :
       (ran[k].cid # 0 /\ ran[k].cid = ran[m].cid) => ran[k].idx = ran[m].idx
  /\ InCall =>
       /\ \A k \in 1..Len(ran) :
            ran[k].cid # 0 => (ran[k].cid = call.content_id <=> ran[k].idx = idx)
       /\ \A f \in DOMAIN tmpRoot[call.tmpdir] :
            tmpRoot[call.tmpdir][f].tag \in {0, call.content_id}
  /\ \A i \in 1..idx :
       LET s == StepsOf(i)
       IN  (Len(s) = 5 /\ s[4].result = "ok" /\ s[5].result # "ok") =>
             /\ WrittenBy(i) = {}
             /\ pc = "done" /\ exitCode = 1 /\ call = NoCall

\* C2's case: the first call wrote a container, the second tagged its video
\* and failed to tag its image.
C2_Witness ==
  /\ idx = 2 /\ Len(ran) > 1
  /\ LastStep.step = "exiftool image" /\ LastStep.result = "nonzero"
  /\ ran[Len(ran) - 1].step = "exiftool video" /\ ran[Len(ran) - 1].result = "ok"
  /\ WrittenBy(1) # {}

\* C3: when a call of build_livp starts, before any of its steps, it chooses
\* S.livp if the output folder holds no file of that name and S_<index as four
\* digits>.livp otherwise (S the source's base name); the choice is not made
\* again during the call; and a successful call writes exactly that file and
\* leaves every other file of the output folder as it was.
C3_Naming ==
  [][ /\ (pc = "loop" /\ pc' = "mkdtemp") =>
           LET S == Stem(Name(sources[idx']))
           IN  /\ call'.src = sources[idx']
               /\ call'.out_path =
                    IF (S \o Dot_livp) \in DOMAIN outFiles
                      THEN S \o << "_" >> \o FourDigits(idx') \o Dot_livp
                      ELSE S \o Dot_livp
               /\ \A k \in 1..Len(ran) : ran[k].idx # idx'
               /\ outFiles' = outFiles
      /\ (InCall /\ pc # "pack") => (call'.active => call'.out_path = call.out_path)
      /\ (InCall /\ pc # "pack") => outFiles' = outFiles
      /\ (pc = "pack" /\ pc' = "loop") =>
           /\ DOMAIN outFiles' = DOMAIN outFiles \cup {call.out_path}
           /\ outFiles'[call.out_path].by = idx
           /\ \A n \in DOMAIN outFiles \ {call.out_path} : outFiles'[n] = outFiles[n]
    ]_vars

\* C3's case: the third source has base name v and v.livp exists (the first
\* source's); its container is v_0003.livp and v.livp is still the first's.
C3_Witness ==
  /\ V_0003_livp \in DOMAIN outFiles /\ outFiles[V_0003_livp].by = 3
  /\ Stem(Name(sources[3])) = << "v" >>
  /\ V_livp \in DOMAIN outFiles /\ outFiles[V_livp].by = 1

\* The positions of the "Output: ..." lines.
OutputLines == {k \in 1..Len(stdout) : stdout[k][1] = "Output"}

\* C4: when a run has processed every source successfully, the output paths of
\* different sources are pairwise distinct and the output folder holds one
\* container per source.
C4_OnePerSource ==
  (status = "returned" /\ exitCode = 0) =>
    /\ \A j, k \in OutputLines : j # k => stdout[j][2] # stdout[k][2]
    /\ Cardinality({n \in DOMAIN outFiles : outFiles[n].by # 0}) = Len(sources)

\* C5, the part about order: the sources are the video files in sorted order,
\* they are taken one at a time with indices 1, 2, ...; a source's steps start
\* only when the source before it has been reported as done; and at the first
\* failure main reports it, returns 1 and starts nothing more.
C5_Sequential ==
  /\ \A j, k \in 1..Len(sources) : j < k => PathLess(sources[j], sources[k])
  /\ idx <= Len(sources)
  /\ \A j, k \in 1..Len(ran) : j < k => ran[j].idx <= ran[k].idx
  /\ \A i \in 1..idx :
       /\ stdout[2 * i] = << "Processing", Name(sources[i]) >>
       /\ i < idx => stdout[2 * i + 1][1] = "Output"
  /\ Len(stdout) <= 2 * idx + 1
  /\ (Len(stdout) > 0 /\ LastLine[1] = "Failed") =>
       /\ pc = "done" /\ status = "returned" /\ exitCode = 1
       /\ LastLine[2] = Name(sources[idx])
       /\ Len(stdout) = 2 * idx + 1

\* C5: C5_Sequential, and at the first failure the containers of the sources
\* that succeeded before it are still reported and in place.
C5_Batch ==
  /\ C5_Sequential
  /\ (Len(stdout) > 0 /\ LastLine[1] = "Failed") =>
       \A i \in 1..(idx - 1) :
         LET out == stdout[2 * i + 1][2]
         IN  out \in DOMAIN outFiles /\ outFiles[out].by = i

\* C6: while a call of build_livp runs its steps, exactly one temporary
\* directory exists, it is the call's, it was empty when the call got it, and
\* it holds the normalized video and the cover image of that call's source and
\* nothing else; outside a call, whether the last one returned a path or failed
\* in any step, no temporary directory and no intermediate file exists.
C6_TempDir ==
  /\ InCall =>
       /\ DOMAIN tmpRoot = {call.tmpdir}
       /\ DOMAIN tmpRoot[call.tmpdir] =
            (IF pc \in {"still", "exif_video", "exif_image", "pack"}
               THEN {"livephoto.mov"} ELSE {})
            \cup (IF pc \in {"exif_video", "exif_image", "pack"}
                    THEN {"livephoto.jpeg"} ELSE {})
       /\ \A f \in DOMAIN tmpRoot[call.tmpdir] :
            tmpRoot[call.tmpdir][f].origin = sources[idx]
  /\ ~InCall => DOMAIN tmpRoot = {}

\* C6's case: the second call failed extracting the still, after its
\* normalized video had been written; the first had returned a container.
C6_Witness ==
  /\ pc = "done" /\ idx = 2 /\ Len(ran) > 0
  /\ LastStep.step = "ffmpeg still" /\ LastStep.result = "nonzero"
  /\ WrittenBy(1) # {}
  /\ DOMAIN tmpRoot = {}

\* C7: after every failed probe (nonzero exit, or the tool could not be
\* started) the call goes on to the encode with synthesized silence.
C7_ProbeNeverFails ==
  \A k \in 1..Len(ran) :
    (ran[k].step = "ffprobe" /\ ran[k].result # "ok") =>
      IF k = Len(ran)
        THEN pc = "encode" /\ call.active /\ ~call.audio
        ELSE /\ ran[k + 1].idx = ran[k].idx
             /\ ran[k + 1].step = "ffmpeg video"
             /\ ran[k + 1].arg = "anullsrc"

\* C8: a container written by the call at index i has exactly two entries,
\* first the image IMG_<i as four digits>.JPG.jpeg, then the video
\* IMG_<i as four digits>.JPG.mov, both stored; the names depend on i alone.
C8_Entries ==
  \A n \in DOMAIN outFiles :
    LET c == outFiles[n]
        base == << "I", "M", "G", "_" >> \o FourDigits(c.by) \o << ".", "J", "P", "G" >>
    IN  c.by # 0 =>
          /\ Len(c.entries) = 2
          /\ c.entries[1].name = base \o << ".", "j", "p", "e", "g" >>
          /\ c.entries[1].data.kind = "image"
          /\ c.entries[2].name = base \o << ".", "m", "o", "v" >>
          /\ c.entries[2].data.kind = "video"
          /\ \A k \in 1..2 : c.entries[k].compress = "ZIP_STORED"

\* C8's case: containers of the first and the second source exist.
C8_Witness == WrittenBy(1) # {} /\ WrittenBy(2) # {}

\* C9: when main ends on a filesystem error (the input folder is missing, the
\* output folder cannot be created, or the output folder cannot be written),
\* no step of any source has been started.
C9_AbortBeforeWork ==
  (/\ status # "running"
   /\ \/ ~inputExists
      \/ status = "crashed" /\ tuning # << >>
      \/ Len(ran) > 0 /\ LastStep.result = "oserror")
  => ran = << >>

Blank(text) == text \in {"", " "}

NumberText == {"0.5", "2.9", "30", "3840", "2160", "2.5", "1e999"}

DefaultTuning ==
  [cover_time |-> Finite(500), max_duration |-> Finite(2900), fps |-> 30,
   max_width |-> 3840, max_height |-> 2160]

====
